---- MODULE Spec2Model ----
(***************************************************************************)
(* The asynchronous message queue of PulseAudio (pulsecore/asyncmsgq.c)    *)
(* and its consumer in the core (pulsecore/core.c: asyncmsgq_cb), modelled *)
(* as a state machine: producers calling pa_asyncmsgq_post and             *)
(* pa_asyncmsgq_send, one consumer running either the main loop's          *)
(* readiness handler or pa_asyncmsgq_wait_for.                             *)
(*                                                                         *)
(* pa_asyncq (the wake-source FIFO) and pa_flist (the item pool) are not   *)
(* part of the two source files; they are modelled from sections 4.1 and   *)
(* 4.2 of the specification.                                               *)
(***************************************************************************)
EXTENDS Integers, Sequences, FiniteSets, TLC

(* ------------------------------ bounds ------------------------------- *)

\* total number of post/send calls made by all producers together
MaxMsgs == 2
\* capacity the queue is created with
MaxSize == 1
\* capacity of the static item free-list
FlistSize == 1

(* ----------------------------- inputs -------------------------------- *)

Producers == {"p1", "p2"}

NULL == "NULL"

\* message codes: the one core_process_msg handles, and another one
Codes == {"PA_CORE_MESSAGE_UNLOAD_MODULE", "OTHER"}

\* the optional arguments of a call: a message target (the core object,
\* whose process_msg is core_process_msg), a chunk (by its memory block) and
\* a releaser of userdata; a call passes none of them or all of them
Payloads == {[object |-> NULL, memblock |-> NULL, free_cb |-> NULL],
             [object |-> "core", memblock |-> "blk", free_cb |-> "free_cb"]}
Objects == {"core"}
Memblocks == {"blk"}

Msgs == 1..MaxMsgs

VARIABLES
    size,        \* capacity of the asyncq
    q,           \* the asyncq: sequence of item handles, head first
    read_waiting,\* the consumer has armed the fd (before_poll returned 0)
    fd_readable, \* the queue's fd is readable
    mutex,       \* a->mutex: the producer holding it, or NULL
    current,     \* a->current: the in-flight item, or 0
    items,       \* item records, by handle: struct asyncmsgq_item
    semval,      \* value of each send item's semaphore
    flist,       \* number of records in the static free-list
    objref,      \* reference count of each message target
    blkref,      \* reference count of each memory block
    pc,          \* position of each producer
    call,        \* the item of each producer's running call, or 0
    nmsgs,       \* number of calls started so far
    cpc,         \* position of the consumer
    c_object, c_code, \* the consumer's locals: the out-parameters of get
    wf_code,     \* the argument of the running pa_asyncmsgq_wait_for
    failed,      \* the assertion that aborted the process, or NULL
    \* history
    kind,        \* "post" / "send" of each call
    owner,       \* the producer of each call
    pushed,      \* handles in the order their pushes succeeded
    got,         \* handles in the order get returned them
    ndispatch,   \* number of dispatches per item
    donevals,    \* values passed to done per item
    freecalls,   \* userdata arguments of the free_cb calls per item
    released,    \* per item: times its record was returned to the pool/heap
    sendret,     \* per send call: <<r>> once send returned r
    wf_seen,     \* handles dispatched by the running/last wait_for
    wf_ret,      \* <<r>> once the last wait_for returned r
    cb_again,    \* before_poll returned nonzero in the running/last handler
    armed_at     \* Len(pushed) when before_poll last returned 0, -1 once
                 \* after_poll has run since

qvars    == <<size, q, read_waiting, fd_readable>>
mvars    == <<mutex, current, items, semval, flist, objref, blkref>>
pvars    == <<pc, call, nmsgs>>
cvars    == <<cpc, c_object, c_code, wf_code>>
hvars    == <<kind, owner, pushed, got, ndispatch, donevals, freecalls,
              released, sendret, wf_seen, wf_ret, cb_again, armed_at>>
vars     == <<qvars, mvars, pvars, cvars, hvars, failed>>

(* ----------------------------- helpers ------------------------------- *)

\* an item record nobody has written yet
NoItem == [code |-> NULL, object |-> NULL, userdata |-> 0, free_cb |-> NULL,
           memblock |-> NULL, semaphore |-> NULL, ret |-> 0]

\* the userdata pointer a call passes: every call passes its own
Userdata(i) == i

\* the positions of the queue's owner at which the queue is not there for
\* producers: not yet handed out by pa_core_new, inside pa_asyncmsgq_free,
\* or destroyed
NoQueuePcs == {"core_new", "free_pop", "freed"}

\* the producers are interchangeable, so the very first call is taken to be
\* p1's; after it any producer may call
FirstCaller(p) == nmsgs = 0 => p = "p1"

Ref(cnt, x) == IF x = NULL THEN cnt ELSE [cnt EXCEPT ![x] = @ + 1]
Unref(cnt, x) == IF x = NULL THEN cnt ELSE [cnt EXCEPT ![x] = @ - 1]

(* ------------------- pa_asyncq: the wake-source FIFO ----------------- *)

\* pa_asyncq_push(l, i, 1): waits while the queue is full; a push into an
\* armed queue makes the fd readable
pa_asyncq_push(i) ==
    /\ Len(q) < size
    /\ q' = Append(q, i)
    /\ fd_readable' = (fd_readable \/ read_waiting)
    /\ UNCHANGED <<size, read_waiting>>

\* pa_asyncq_pop(l, wait): the head, or 0 for an empty queue when wait = 0;
\* with wait = 1 the caller is suspended while the queue is empty
pa_asyncq_pop_enabled(wait) == wait = 0 \/ q # <<>>
pa_asyncq_pop_result == IF q = <<>> THEN 0 ELSE Head(q)
pa_asyncq_pop_queue == IF q = <<>> THEN q ELSE Tail(q)

\* pa_asyncq_before_poll(l) returns r: 0 and the fd armed when the queue is
\* empty, nonzero when an item is queued
pa_asyncq_before_poll(r) ==
    /\ r = (IF q = <<>> THEN 0 ELSE -1)
    /\ read_waiting' = (IF q = <<>> THEN TRUE ELSE read_waiting)
    /\ UNCHANGED <<size, q, fd_readable>>

\* pa_asyncq_after_poll(l): disarms and consumes the pending readiness
pa_asyncq_after_poll ==
    /\ read_waiting' = FALSE
    /\ fd_readable' = FALSE
    /\ UNCHANGED <<size, q>>

(* ------------------------ pa_flist: item pool ------------------------ *)

\* pa_flist_pop, or pa_xnew when the list is empty: the list afterwards
pa_flist_pop == IF flist > 0 THEN flist - 1 ELSE flist
\* pa_flist_push, or pa_xfree when the list is full: the list afterwards
pa_flist_push == IF flist < FlistSize THEN flist + 1 ELSE flist

(* ------------------- pa_asyncmsgq: event-loop bridge ----------------- *)

\* mutant of pa_asyncmsgq_before_poll: reports 0 without asking the asyncq
pa_asyncmsgq_before_poll_noarm(r) ==
    /\ r = 0
    /\ UNCHANGED qvars

\* mutant of pa_asyncmsgq_before_poll: returns the result with its sense
\* inverted
pa_asyncmsgq_before_poll_inv(r) ==
    \E r0 \in {0, -1} :
        /\ pa_asyncq_before_poll(r0)
        /\ r = (IF r0 = 0 THEN -1 ELSE 0)

\* pa_asyncmsgq_before_poll(a) returns r: forwards to the asyncq
pa_asyncmsgq_before_poll(r) == pa_asyncq_before_poll(r)

\* pa_asyncmsgq_after_poll(a): forwards to the asyncq
pa_asyncmsgq_after_poll == pa_asyncq_after_poll

(* ------------------------------ Init --------------------------------- *)

\* The queue after pa_asyncmsgq_new(MaxSize): empty, mutex free, nothing in
\* flight. Its owner is either pa_core_new, which has just created it and
\* goes on to hand it to the main loop, or a thread that will consume it
\* with pa_asyncmsgq_wait_for.
Init ==
    /\ size = MaxSize
    /\ q = <<>>
    /\ read_waiting = FALSE
    /\ fd_readable = FALSE
    /\ armed_at = -1
    /\ cpc \in {"core_new", "thread"}
    /\ mutex = NULL
    /\ current = 0
    /\ items = [i \in Msgs |-> NoItem]
    /\ semval = [i \in Msgs |-> 0]
    /\ flist = 0
    /\ objref = [o \in Objects |-> 1]
    /\ blkref = [b \in Memblocks |-> 1]
    /\ pc = [p \in Producers |-> "idle"]
    /\ call = [p \in Producers |-> 0]
    /\ nmsgs = 0
    /\ c_object = NULL
    /\ c_code = NULL
    /\ wf_code = NULL
    /\ failed = NULL
    /\ kind = [i \in Msgs |-> NULL]
    /\ owner = [i \in Msgs |-> NULL]
    /\ pushed = <<>>
    /\ got = <<>>
    /\ ndispatch = [i \in Msgs |-> 0]
    /\ donevals = [i \in Msgs |-> <<>>]
    /\ freecalls = [i \in Msgs |-> <<>>]
    /\ released = [i \in Msgs |-> 0]
    /\ sendret = [i \in Msgs |-> <<>>]
    /\ wf_seen = <<>>
    /\ wf_ret = <<>>
    /\ cb_again = FALSE

(* ---------------------------- producers ------------------------------ *)

\* pa_asyncmsgq_post, up to the lock: takes a record from the pool, fills it
\* in, takes a reference on the object and on the chunk's memory block
PostPrepare(p, object, code, chunk, free_cb) ==
    /\ failed = NULL
    /\ pc[p] = "idle"
    /\ nmsgs < MaxMsgs
    /\ cpc \notin NoQueuePcs
    /\ FirstCaller(p)
    /\ LET i == nmsgs + 1 IN
        /\ nmsgs' = i
        /\ flist' = pa_flist_pop
        /\ items' = [items EXCEPT ![i] =
                        [code |-> code, object |-> object,
                         userdata |-> Userdata(i), free_cb |-> free_cb,
                         memblock |-> chunk, semaphore |-> NULL,
                         ret |-> items[i].ret]]
        /\ objref' = Ref(objref, object)
        /\ blkref' = Ref(blkref, chunk)
        /\ call' = [call EXCEPT ![p] = i]
        /\ kind' = [kind EXCEPT ![i] = "post"]
        /\ owner' = [owner EXCEPT ![i] = p]
    /\ pc' = [pc EXCEPT ![p] = "post_lock"]
    /\ UNCHANGED <<qvars, mutex, current, semval, cvars, failed, pushed, got,
                   ndispatch, donevals, freecalls, released, sendret, wf_seen,
                   wf_ret, cb_again,
                   armed_at>>

\* pa_mutex_lock(a->mutex)
Lock(p, from, to) ==
    /\ failed = NULL
    /\ pc[p] = from
    /\ mutex = NULL
    /\ mutex' = p
    /\ pc' = [pc EXCEPT ![p] = to]
    /\ UNCHANGED <<qvars, current, items, semval, flist, objref, blkref, call,
                   nmsgs, cvars, hvars, failed>>

\* mutant of PushUnlock: pushes without waiting (wait = 0) and ignores the
\* failure, so an item pushed to a full queue is dropped
PushUnlock_nowait(p, from, to) ==
    /\ failed = NULL
    /\ pc[p] = from
    /\ IF Len(q) < size
       THEN pa_asyncq_push(call[p]) /\ pushed' = Append(pushed, call[p])
       ELSE UNCHANGED <<qvars, pushed>>
    /\ mutex' = NULL
    /\ pc' = [pc EXCEPT ![p] = to]
    /\ UNCHANGED <<current, items, semval, flist, objref, blkref, call, nmsgs,
                   cvars, failed, kind, owner, got, ndispatch, donevals,
                   freecalls, released, sendret, wf_seen, wf_ret, cb_again,
                   armed_at>>

\* mutant of PushUnlock: pushes without regard to the capacity, as a push
\* that does not wait for space and does not fail either
PushUnlock_force(p, from, to) ==
    /\ failed = NULL
    /\ pc[p] = from
    /\ q' = Append(q, call[p])
    /\ fd_readable' = (fd_readable \/ read_waiting)
    /\ pushed' = Append(pushed, call[p])
    /\ mutex' = NULL
    /\ pc' = [pc EXCEPT ![p] = to]
    /\ UNCHANGED <<size, read_waiting, current, items, semval, flist, objref,
                   blkref, call, nmsgs, cvars, failed, kind, owner, got,
                   ndispatch, donevals, freecalls, released, sendret,
                   wf_seen, wf_ret, cb_again, armed_at>>

\* pa_assert_se(pa_asyncq_push(a->asyncq, i, 1) == 0);
\* pa_mutex_unlock(a->mutex)
PushUnlock(p, from, to) ==
    /\ failed = NULL
    /\ pc[p] = from
    /\ pa_asyncq_push(call[p])
    /\ pushed' = Append(pushed, call[p])
    /\ mutex' = NULL
    /\ pc' = [pc EXCEPT ![p] = to]
    /\ UNCHANGED <<current, items, semval, flist, objref, blkref, call, nmsgs,
                   cvars, failed, kind, owner, got, ndispatch, donevals,
                   freecalls, released, sendret, wf_seen, wf_ret, cb_again,
                   armed_at>>

\* mutant of PostPush: returns from post without unlocking the mutex
PostPush_nounlock(p) ==
    /\ failed = NULL
    /\ pc[p] = "post_push"
    /\ pa_asyncq_push(call[p])
    /\ pushed' = Append(pushed, call[p])
    /\ pc' = [pc EXCEPT ![p] = "idle"]
    /\ UNCHANGED <<mvars, call, nmsgs, cvars, failed, kind, owner, got,
                   ndispatch, donevals, freecalls, released, sendret,
                   wf_seen, wf_ret, cb_again, armed_at>>

PostLock(p) == Lock(p, "post_lock", "post_push")
\* the unlock is the last statement of pa_asyncmsgq_post: the call returns
PostPush(p) == PushUnlock(p, "post_push", "idle")

\* pa_asyncmsgq_send, up to the lock: fills in an item on its stack, with a
\* new semaphore of value 0 and ret = -1; takes no reference
SendPrepare(p, object, code, chunk) ==
    /\ failed = NULL
    /\ pc[p] = "idle"
    /\ nmsgs < MaxMsgs
    /\ cpc \notin NoQueuePcs
    /\ FirstCaller(p)
    /\ LET i == nmsgs + 1 IN
        /\ nmsgs' = i
        /\ items' = [items EXCEPT ![i] =
                        [code |-> code, object |-> object,
                         userdata |-> Userdata(i), free_cb |-> NULL,
                         memblock |-> chunk, semaphore |-> "sem",
                         ret |-> -1]]
        /\ semval' = [semval EXCEPT ![i] = 0]
        /\ call' = [call EXCEPT ![p] = i]
        /\ kind' = [kind EXCEPT ![i] = "send"]
        /\ owner' = [owner EXCEPT ![i] = p]
    /\ pc' = [pc EXCEPT ![p] = "send_lock"]
    /\ UNCHANGED <<qvars, mutex, current, flist, objref, blkref, cvars, failed,
                   pushed, got, ndispatch, donevals, freecalls, released,
                   sendret, wf_seen, wf_ret, cb_again,
                   armed_at>>

\* mutant of SendPush: waits for the reply with the mutex still held
SendPush_hold(p) ==
    /\ failed = NULL
    /\ pc[p] = "send_push"
    /\ pa_asyncq_push(call[p])
    /\ pushed' = Append(pushed, call[p])
    /\ pc' = [pc EXCEPT ![p] = "send_wait"]
    /\ UNCHANGED <<mvars, call, nmsgs, cvars, failed, kind, owner, got,
                   ndispatch, donevals, freecalls, released, sendret,
                   wf_seen, wf_ret, cb_again, armed_at>>

SendLock(p) == Lock(p, "send_lock", "send_push")
SendPush(p) == PushUnlock(p, "send_push", "send_wait")

\* pa_semaphore_wait(i.semaphore); pa_semaphore_free(i.semaphore);
\* return i.ret
SendWait(p) ==
    /\ failed = NULL
    /\ pc[p] = "send_wait"
    /\ semval[call[p]] > 0
    /\ semval' = [semval EXCEPT ![call[p]] = @ - 1]
    /\ sendret' = [sendret EXCEPT ![call[p]] = <<items[call[p]].ret>>]
    /\ pc' = [pc EXCEPT ![p] = "idle"]
    /\ UNCHANGED <<qvars, mutex, current, items, flist, objref, blkref, call,
                   nmsgs, cvars, failed, kind, owner, pushed, got, ndispatch,
                   donevals, freecalls, released, wf_seen, wf_ret, cb_again,
                   armed_at>>

(* ----------------------------- consumer ------------------------------ *)

\* core_process_msg: the core's handler
core_process_msg(code) ==
    IF code = "PA_CORE_MESSAGE_UNLOAD_MODULE" THEN 0 ELSE -1

\* pa_asyncmsgq_dispatch: the object's handler, 0 without an object
pa_asyncmsgq_dispatch(object, code) ==
    IF object # NULL THEN core_process_msg(code) ELSE 0

\* an assertion fails: the process aborts, nothing else changes
Abort(what) ==
    /\ failed' = what
    /\ UNCHANGED <<qvars, mvars, pvars, cvars, hvars>>

\* mutant of pa_asyncmsgq_get: passes 1 for wait whatever the caller asked
\* for, so a get on an empty queue suspends
pa_asyncmsgq_get_block(wait, ok, fail) ==
    /\ failed = NULL
    /\ IF current # 0
       THEN Abort("pa_assert(!a->current)")
       ELSE /\ pa_asyncq_pop_enabled(1)
            /\ current' = pa_asyncq_pop_result
            /\ q' = pa_asyncq_pop_queue
            /\ IF current' = 0
               THEN /\ cpc' = fail
                    /\ UNCHANGED <<c_object, c_code, got>>
               ELSE /\ cpc' = ok
                    /\ c_code' = items[current'].code
                    /\ c_object' = items[current'].object
                    /\ got' = Append(got, current')
            /\ UNCHANGED <<size, read_waiting, fd_readable, mutex, items,
                           semval, flist, objref, blkref, pvars, wf_code,
                           failed, kind, owner, pushed, ndispatch, donevals,
                           freecalls, released, sendret, wf_seen, cb_again,
                           armed_at>>

\* pa_asyncmsgq_get(a, &object, &code, ..., wait); the caller goes on at ok
\* after a return of 0, at fail after a return of -1
pa_asyncmsgq_get(wait, ok, fail) ==
    /\ failed = NULL
    /\ IF current # 0
       THEN Abort("pa_assert(!a->current)")
       ELSE /\ pa_asyncq_pop_enabled(wait)
            /\ current' = pa_asyncq_pop_result
            /\ q' = pa_asyncq_pop_queue
            /\ IF current' = 0
               THEN /\ cpc' = fail
                    /\ UNCHANGED <<c_object, c_code, got>>
               ELSE /\ cpc' = ok
                    /\ c_code' = items[current'].code
                    /\ c_object' = items[current'].object
                    /\ got' = Append(got, current')
            /\ UNCHANGED <<size, read_waiting, fd_readable, mutex, items,
                           semval, flist, objref, blkref, pvars, wf_code,
                           failed, kind, owner, pushed, ndispatch, donevals,
                           freecalls, released, sendret, wf_seen, cb_again,
                   armed_at>>

\* mutant of DoneReply: wakes the sender without storing ret
DoneReply_noret(ret) ==
    /\ semval' = [semval EXCEPT ![current] = @ + 1]
    /\ UNCHANGED <<items, freecalls, objref, blkref, flist, released>>

\* mutant of DoneReply: also drops the references of the sender's item
DoneReply_unref(ret) ==
    /\ items' = [items EXCEPT ![current].ret = ret]
    /\ semval' = [semval EXCEPT ![current] = @ + 1]
    /\ objref' = Unref(objref, items[current].object)
    /\ blkref' = Unref(blkref, items[current].memblock)
    /\ UNCHANGED <<freecalls, flist, released>>

\* pa_asyncmsgq_done, the item has a semaphore: stores ret in the item and
\* posts the semaphore
DoneReply(ret) ==
    /\ items' = [items EXCEPT ![current].ret = ret]
    /\ semval' = [semval EXCEPT ![current] = @ + 1]
    /\ UNCHANGED <<freecalls, objref, blkref, flist, released>>

\* mutant of DoneRelease: forgets the free_cb
DoneRelease_nofree ==
    /\ objref' = Unref(objref, items[current].object)
    /\ blkref' = Unref(blkref, items[current].memblock)
    /\ flist' = pa_flist_push
    /\ released' = [released EXCEPT ![current] = @ + 1]
    /\ UNCHANGED <<freecalls, items, semval>>

\* mutant of DoneRelease: forgets to drop the memory block's reference
\* when the item has an object
DoneRelease_noblk ==
    /\ freecalls' =
          IF items[current].free_cb # NULL
          THEN [freecalls EXCEPT ![current] =
                   Append(@, items[current].userdata)]
          ELSE freecalls
    /\ objref' = Unref(objref, items[current].object)
    /\ blkref' = IF items[current].object # NULL THEN blkref
                 ELSE Unref(blkref, items[current].memblock)
    /\ flist' = pa_flist_push
    /\ released' = [released EXCEPT ![current] = @ + 1]
    /\ UNCHANGED <<items, semval>>

\* mutant of DoneRelease: pushes the record to the free-list and frees it
\* as well
DoneRelease_double ==
    /\ freecalls' =
          IF items[current].free_cb # NULL
          THEN [freecalls EXCEPT ![current] =
                   Append(@, items[current].userdata)]
          ELSE freecalls
    /\ objref' = Unref(objref, items[current].object)
    /\ blkref' = Unref(blkref, items[current].memblock)
    /\ flist' = pa_flist_push
    /\ released' = [released EXCEPT ![current] = @ + 2]
    /\ UNCHANGED <<items, semval>>

\* pa_asyncmsgq_done, the item has no semaphore: calls free_cb(userdata),
\* drops the references on the object and the memory block, returns the
\* record to the free-list or frees it
DoneRelease ==
    /\ freecalls' =
          IF items[current].free_cb # NULL
          THEN [freecalls EXCEPT ![current] =
                   Append(@, items[current].userdata)]
          ELSE freecalls
    /\ objref' = Unref(objref, items[current].object)
    /\ blkref' = Unref(blkref, items[current].memblock)
    /\ flist' = pa_flist_push
    /\ released' = [released EXCEPT ![current] = @ + 1]
    /\ UNCHANGED <<items, semval>>

\* pa_asyncmsgq_done(a, ret): what it does to the queue, the item and the
\* item's resources
pa_asyncmsgq_done(ret) ==
    /\ failed = NULL
    /\ IF current = 0
       THEN Abort("pa_assert(a->current)")
       ELSE /\ IF items[current].semaphore # NULL
               THEN DoneReply(ret)
               ELSE DoneRelease
            /\ current' = 0
            /\ donevals' = [donevals EXCEPT ![current] = Append(@, ret)]
            /\ UNCHANGED <<qvars, mutex, pvars, failed, kind, owner, pushed,
                           got, sendret>>

\* ret = pa_asyncmsgq_dispatch(object, code, data, offset, &chunk);
\* pa_asyncmsgq_done(a, ret): the loop body of both consumers
DispatchDone ==
    /\ pa_asyncmsgq_done(pa_asyncmsgq_dispatch(c_object, c_code))
    /\ IF failed' = NULL
       THEN ndispatch' = [ndispatch EXCEPT ![current] = @ + 1]
       ELSE TRUE

\* pa_core_new, after pa_asyncmsgq_new:
\* pa_assert_se(pa_asyncmsgq_before_poll(c->asyncmsgq) == 0), then the fd is
\* registered with the main loop and the core is returned to its users
CoreNew ==
    /\ failed = NULL
    /\ cpc = "core_new"
    /\ \E r \in {0, -1} :
          /\ pa_asyncmsgq_before_poll(r)
          /\ IF r = 0
             THEN /\ cpc' = "mainloop"
                  /\ armed_at' = Len(pushed)
                  /\ UNCHANGED failed
             ELSE /\ failed' = "pa_assert_se(pa_asyncmsgq_before_poll == 0)"
                  /\ UNCHANGED <<cpc, armed_at>>
    /\ UNCHANGED <<mvars, pvars, c_object, c_code, wf_code, kind, owner,
                   pushed, got, ndispatch, donevals, freecalls, released,
                   sendret, wf_seen, wf_ret, cb_again>>

\* the main loop's poll finds the queue's fd readable and calls asyncmsgq_cb,
\* which starts with pa_asyncmsgq_after_poll(c->asyncmsgq)
Poll ==
    /\ failed = NULL
    /\ cpc = "mainloop"
    /\ fd_readable
    /\ pa_asyncmsgq_after_poll
    /\ cpc' = "cb_get"
    /\ cb_again' = FALSE
    /\ armed_at' = -1
    /\ UNCHANGED <<mvars, pvars, c_object, c_code, wf_code, failed, kind,
                   owner, pushed, got, ndispatch, donevals, freecalls,
                   released, sendret, wf_seen, wf_ret>>

\* asyncmsgq_cb: while (pa_asyncmsgq_get(..., 0) == 0)
CbGet ==
    /\ cpc = "cb_get"
    /\ pa_asyncmsgq_get(0, "cb_dispatch", "cb_before_poll")
    /\ UNCHANGED wf_ret

\* mutant of CbDispatch: dispatches and goes on to the next get without done
CbDispatch_nodone ==
    /\ failed = NULL
    /\ cpc = "cb_dispatch"
    /\ ndispatch' = [ndispatch EXCEPT ![current] = @ + 1]
    /\ cpc' = "cb_get"
    /\ UNCHANGED <<qvars, mvars, pvars, c_object, c_code, wf_code, failed,
                   kind, owner, pushed, got, donevals, freecalls, released,
                   sendret, wf_seen, wf_ret, cb_again, armed_at>>

\* asyncmsgq_cb: the body of the while loop
CbDispatch ==
    /\ cpc = "cb_dispatch"
    /\ DispatchDone
    /\ IF failed' = NULL
       THEN cpc' = "cb_get" /\ UNCHANGED <<c_object, c_code, wf_code,
                                           wf_seen, wf_ret, cb_again,
                   armed_at>>
       ELSE TRUE

\* mutant of CbBeforePoll: returns to the main loop whatever before_poll
\* returned
CbBeforePoll_once ==
    /\ failed = NULL
    /\ cpc = "cb_before_poll"
    /\ \E r \in {0, -1} :
          /\ pa_asyncmsgq_before_poll(r)
          /\ armed_at' = IF r = 0 THEN Len(pushed) ELSE armed_at
          /\ cb_again' = (cb_again \/ r # 0)
    /\ cpc' = "mainloop"
    /\ c_object' = NULL
    /\ c_code' = NULL
    /\ UNCHANGED <<mvars, pvars, wf_code, failed, kind, owner, pushed, got,
                   ndispatch, donevals, freecalls, released, sendret,
                   wf_seen, wf_ret>>

\* mutant of CbBeforePoll: the handler returns to the main loop without
\* calling before_poll
CbBeforePoll_norearm ==
    /\ failed = NULL
    /\ cpc = "cb_before_poll"
    /\ cpc' = "mainloop"
    /\ c_object' = NULL
    /\ c_code' = NULL
    /\ UNCHANGED <<qvars, mvars, pvars, wf_code, failed, hvars>>

\* asyncmsgq_cb: if (pa_asyncmsgq_before_poll(c->asyncmsgq) == 0) break;
\* otherwise once more around the for (;;). After the break the handler
\* returns and its locals are gone.
CbBeforePoll ==
    /\ failed = NULL
    /\ cpc = "cb_before_poll"
    /\ \E r \in {0, -1} :
          /\ pa_asyncmsgq_before_poll(r)
          /\ IF r = 0
             THEN /\ cpc' = "mainloop"
                  /\ c_object' = NULL
                  /\ c_code' = NULL
                  /\ armed_at' = Len(pushed)
             ELSE /\ cpc' = "cb_get"
                  /\ UNCHANGED <<c_object, c_code, armed_at>>
          /\ cb_again' = (cb_again \/ r # 0)
    /\ UNCHANGED <<mvars, pvars, wf_code, failed, kind, owner, pushed, got,
                   ndispatch, donevals, freecalls, released, sendret,
                   wf_seen, wf_ret>>

\* the consumer thread calls pa_asyncmsgq_wait_for(a, code)
WaitFor(code) ==
    /\ failed = NULL
    /\ cpc = "thread"
    /\ cpc' = "wf_get"
    /\ wf_code' = code
    /\ wf_seen' = <<>>
    /\ wf_ret' = <<>>
    /\ UNCHANGED <<qvars, mvars, pvars, c_object, c_code, failed, kind,
                   owner, pushed, got, ndispatch, donevals, freecalls,
                   released, sendret, cb_again,
                   armed_at>>

\* pa_asyncmsgq_wait_for: if (pa_asyncmsgq_get(..., 1) < 0) return -1
WfGet ==
    /\ cpc = "wf_get"
    /\ pa_asyncmsgq_get(1, "wf_dispatch", "thread")
    /\ wf_ret' = IF failed' = NULL /\ current' = 0 THEN <<-1>> ELSE wf_ret

\* mutant of WfDispatch: returns 0 after the first message, whatever its code
WfDispatch_first ==
    /\ cpc = "wf_dispatch"
    /\ DispatchDone
    /\ IF failed' = NULL
       THEN /\ wf_seen' = Append(wf_seen, current)
            /\ cpc' = "thread"
            /\ wf_ret' = <<0>>
            /\ c_object' = NULL
            /\ c_code' = NULL
            /\ UNCHANGED <<wf_code, cb_again, armed_at>>
       ELSE TRUE

\* mutant of WfDispatch: having seen the code, goes on as long as messages
\* are queued
WfDispatch_greedy ==
    /\ cpc = "wf_dispatch"
    /\ DispatchDone
    /\ IF failed' = NULL
       THEN /\ wf_seen' = Append(wf_seen, current)
            /\ IF c_code # wf_code \/ q # <<>>
               THEN /\ cpc' = "wf_get"
                    /\ UNCHANGED <<wf_ret, c_object, c_code>>
               ELSE /\ cpc' = "thread"
                    /\ wf_ret' = <<0>>
                    /\ c_object' = NULL
                    /\ c_code' = NULL
            /\ UNCHANGED <<wf_code, cb_again, armed_at>>
       ELSE TRUE

\* pa_asyncmsgq_wait_for: the body of the do loop, and
\* while (c != code); return 0. After the return the locals are gone.
WfDispatch ==
    /\ cpc = "wf_dispatch"
    /\ DispatchDone
    /\ IF failed' = NULL
       THEN /\ wf_seen' = Append(wf_seen, current)
            /\ IF c_code # wf_code
               THEN /\ cpc' = "wf_get"
                    /\ UNCHANGED <<wf_ret, c_object, c_code>>
               ELSE /\ cpc' = "thread"
                    /\ wf_ret' = <<0>>
                    /\ c_object' = NULL
                    /\ c_code' = NULL
            /\ UNCHANGED <<wf_code, cb_again,
                   armed_at>>
       ELSE TRUE

(* ------------- pa_asyncmsgq_done in the steps of its code ------------- *)

\* asyncmsgq_cb, the body of the while loop for an item without semaphore:
\* nobody else can see the item, the release is one step as above
CbDispatchPost ==
    /\ current # 0
    /\ items[current].semaphore = NULL
    /\ CbDispatch

\* asyncmsgq_cb, the body of the while loop for an item with a semaphore, up
\* to the post: a->current->ret = ret; pa_semaphore_post(...)
CbDoneReply ==
    /\ failed = NULL
    /\ cpc = "cb_dispatch"
    /\ current # 0
    /\ items[current].semaphore # NULL
    /\ DoneReply(pa_asyncmsgq_dispatch(c_object, c_code))
    /\ donevals' = [donevals EXCEPT ![current] =
                       Append(@, pa_asyncmsgq_dispatch(c_object, c_code))]
    /\ ndispatch' = [ndispatch EXCEPT ![current] = @ + 1]
    /\ cpc' = "cb_done_clear"
    /\ UNCHANGED <<qvars, mutex, current, pvars, c_object, c_code, wf_code,
                   failed, kind, owner, pushed, got, sendret, wf_seen,
                   wf_ret, cb_again, armed_at>>

\* mutant of CbDoneClear: tidies the item up after the semaphore was posted
CbDoneClear_touch ==
    /\ failed = NULL
    /\ cpc = "cb_done_clear"
    /\ items' = [items EXCEPT ![current].semaphore = NULL]
    /\ current' = 0
    /\ cpc' = "cb_get"
    /\ UNCHANGED <<qvars, mutex, semval, flist, objref, blkref, pvars,
                   c_object, c_code, wf_code, failed, hvars>>

\* pa_asyncmsgq_done after the post: a->current = NULL, and the handler goes
\* on to the next get
CbDoneClear ==
    /\ failed = NULL
    /\ cpc = "cb_done_clear"
    /\ current' = 0
    /\ cpc' = "cb_get"
    /\ UNCHANGED <<qvars, mutex, items, semval, flist, objref, blkref, pvars,
                   c_object, c_code, wf_code, failed, hvars>>

(* --------------------------- destruction ----------------------------- *)

\* no producer is inside a call that still uses the queue: each is outside
\* post and send, or is a sender waiting on its own semaphore
Quiescent == \A p \in Producers : pc[p] \in {"idle", "send_wait"}

\* core_free: pa_asyncmsgq_after_poll(c->asyncmsgq);
\* pa_asyncmsgq_free(c->asyncmsgq), called from the main loop's thread
\* outside the handler
CoreFree ==
    /\ failed = NULL
    /\ cpc = "mainloop"
    /\ Quiescent
    /\ pa_asyncmsgq_after_poll
    /\ armed_at' = -1
    /\ cpc' = "free_pop"
    /\ UNCHANGED <<mvars, pvars, c_object, c_code, wf_code, failed, kind,
                   owner, pushed, got, ndispatch, donevals, freecalls,
                   released, sendret, wf_seen, wf_ret, cb_again>>

\* the owner of a queue consumed by a thread calls pa_asyncmsgq_free(a):
\* while the consumer is idle, or while a message returned by get still
\* awaits its done
ThreadFree ==
    /\ failed = NULL
    /\ cpc \in {"thread", "wf_dispatch"}
    /\ Quiescent
    /\ cpc' = "free_pop"
    /\ UNCHANGED <<qvars, mvars, pvars, c_object, c_code, wf_code, failed,
                   hvars>>

\* pa_asyncmsgq_free, the body of the while loop after the assertion: drops
\* the references on the object and the memory block, calls
\* free_cb(userdata), returns the record to the free-list or frees it
FreeRelease(i) ==
    /\ objref' = Unref(objref, items[i].object)
    /\ blkref' = Unref(blkref, items[i].memblock)
    /\ freecalls' =
          IF items[i].free_cb # NULL
          THEN [freecalls EXCEPT ![i] = Append(@, items[i].userdata)]
          ELSE freecalls
    /\ flist' = pa_flist_push
    /\ released' = [released EXCEPT ![i] = @ + 1]

\* mutant of FreePop: drops a queued item that carries a semaphore instead
\* of asserting
FreePop_drop ==
    /\ failed = NULL
    /\ cpc = "free_pop"
    /\ LET i == pa_asyncq_pop_result IN
        IF i = 0
        THEN /\ cpc' = "freed"
             /\ UNCHANGED <<qvars, mvars, pvars, c_object, c_code, wf_code,
                            failed, hvars>>
        ELSE /\ q' = pa_asyncq_pop_queue
             /\ IF items[i].semaphore # NULL
                THEN UNCHANGED <<objref, blkref, freecalls, flist, released>>
                ELSE FreeRelease(i)
             /\ UNCHANGED <<size, read_waiting, fd_readable, mutex, current,
                            items, semval, pvars, cvars, failed, kind, owner,
                            pushed, got, ndispatch, donevals, sendret,
                            wf_seen, wf_ret, cb_again, armed_at>>

\* pa_asyncmsgq_free: one round of
\* while ((i = pa_asyncq_pop(a->asyncq, 0))) { pa_assert(!i->semaphore); ... }
\* and, once the pop returns nothing, the release of the asyncq, the mutex
\* and the queue itself
FreePop ==
    /\ failed = NULL
    /\ cpc = "free_pop"
    /\ LET i == pa_asyncq_pop_result IN
        IF i = 0
        THEN /\ cpc' = "freed"
             /\ UNCHANGED <<qvars, mvars, pvars, c_object, c_code, wf_code,
                            failed, hvars>>
        ELSE IF items[i].semaphore # NULL
        THEN Abort("pa_assert(!i->semaphore)")
        ELSE /\ q' = pa_asyncq_pop_queue
             /\ FreeRelease(i)
             /\ UNCHANGED <<size, read_waiting, fd_readable, mutex, current,
                            items, semval, pvars, cvars, failed, kind, owner,
                            pushed, got, ndispatch, donevals, sendret,
                            wf_seen, wf_ret, cb_again, armed_at>>

(* --------------------------- specification --------------------------- *)

Next ==
    \/ \E p \in Producers, code \in Codes, a \in Payloads :
            PostPrepare(p, a.object, code, a.memblock, a.free_cb)
    \/ \E p \in Producers : PostLock(p)
    \/ \E p \in Producers : PostPush(p)
    \/ \E p \in Producers, code \in Codes, a \in Payloads :
            SendPrepare(p, a.object, code, a.memblock)
    \/ \E p \in Producers : SendLock(p)
    \/ \E p \in Producers : SendPush(p)
    \/ \E p \in Producers : SendWait(p)
    \/ CoreNew
    \/ Poll
    \/ CbGet
    \/ CbDispatch
    \/ CbBeforePoll
    \/ \E code \in Codes : WaitFor(code)
    \/ WfGet
    \/ WfDispatch

Spec == Init /\ [][Next]_vars

\* the queue's whole life: the calls and the consumers as above, and the
\* owner destroying the queue
NextFree ==
    \/ Next
    \/ CoreFree
    \/ ThreadFree
    \/ FreePop

SpecFree == Init /\ [][NextFree]_vars

\* the queue pa_core_new has just created
InitCore == Init /\ cpc = "core_new"

\* the core's queue with pa_asyncmsgq_done taken statement by statement for
\* the items senders wait for

NextOwn ==
    \/ \E p \in Producers, code \in Codes, a \in Payloads :
            PostPrepare(p, a.object, code, a.memblock, a.free_cb)
    \/ \E p \in Producers : PostLock(p)
    \/ \E p \in Producers : PostPush(p)
    \/ \E p \in Producers, code \in Codes, a \in Payloads :
            SendPrepare(p, a.object, code, a.memblock)
    \/ \E p \in Producers : SendLock(p)
    \/ \E p \in Producers : SendPush(p)
    \/ \E p \in Producers : SendWait(p)
    \/ CoreNew
    \/ Poll
    \/ CbGet
    \/ CbDispatchPost
    \/ CbDoneReply
    \/ CbDoneClear
    \/ CbBeforePoll

SpecOwn == InitCore /\ [][NextOwn]_vars

\* the optional arguments have no part in which step the handler or a
\* producer takes next; where only the order of the steps matters every call
\* passes all of them
FullPayload == [object |-> "core", memblock |-> "blk", free_cb |-> "free_cb"]

\* the core's queue: the producers, and the main loop with asyncmsgq_cb
NextLive ==
    \/ \E p \in Producers, code \in Codes :
            PostPrepare(p, FullPayload.object, code, FullPayload.memblock,
                        FullPayload.free_cb)
    \/ \E p \in Producers : PostLock(p)
    \/ \E p \in Producers : PostPush(p)
    \/ \E p \in Producers, code \in Codes :
            SendPrepare(p, FullPayload.object, code, FullPayload.memblock)
    \/ \E p \in Producers : SendLock(p)
    \/ \E p \in Producers : SendPush(p)
    \/ \E p \in Producers : SendWait(p)
    \/ CoreNew
    \/ Poll
    \/ CbGet
    \/ CbDispatch
    \/ CbBeforePoll

\* the main loop's thread keeps running: it returns from poll when the fd is
\* readable and takes the next step of the handler; a sender whose semaphore
\* was posted is woken up
SpecLive ==
    /\ InitCore
    /\ [][NextLive]_vars
    /\ WF_vars(CoreNew)
    /\ WF_vars(Poll)
    /\ WF_vars(CbGet)
    /\ WF_vars(CbDispatch)
    /\ WF_vars(CbBeforePoll)
    /\ \A p \in Producers : WF_vars(SendWait(p))

(* ------------------------- derived notions --------------------------- *)

Range(s) == {s[k] : k \in 1..Len(s)}

IsPrefix(s, t) == Len(s) <= Len(t) /\ SubSeq(t, 1, Len(s)) = s

\* the calls made so far, and those of each kind
Calls == 1..nmsgs
Posts == {i \in Calls : kind[i] = "post"}
Sends == {i \in Calls : kind[i] = "send"}

\* the handles in s that producer p enqueued
OwnedBy(s, p) == SelectSeq(s, LAMBDA i : owner[i] = p)

\* what dispatching item i returns
DispatchOf(i) == pa_asyncmsgq_dispatch(items[i].object, items[i].code)

(* ------------------------------ claims ------------------------------- *)

\* C1: whenever pa_asyncmsgq_send has returned r, its item was returned by
\* get exactly once, was dispatched exactly once, done was called for it
\* exactly once, and the value given to done - the result of dispatching the
\* item - is r. All of it has happened by the time send has returned.
C1_SendReturnsDoneValue ==
    \A i \in Sends :
        sendret[i] # <<>> =>
            /\ Len(SelectSeq(got, LAMBDA j : j = i)) = 1
            /\ ndispatch[i] = 1
            /\ donevals[i] = sendret[i]
            /\ donevals[i] = <<DispatchOf(i)>>

\* a send to the core with the code it handles has returned 0, which is not
\* the initial value of ret
C1_Witness ==
    \E i \in Sends :
        /\ sendret[i] = <<0>>
        /\ items[i].object = "core"
        /\ items[i].code = "PA_CORE_MESSAGE_UNLOAD_MODULE"

\* C2: a free_cb is only ever called for a post that passed one, at most
\* once and with the userdata of that post; and once the queue is drained
\* (nothing queued, nothing in flight) the number of free_cb calls equals the
\* number of enqueued posts with a free_cb.
C2_FreeCbOncePerPost ==
    /\ \A i \in Msgs :
          freecalls[i] # <<>> =>
              /\ i \in Posts
              /\ items[i].free_cb # NULL
              /\ freecalls[i] = <<Userdata(i)>>
    /\ (q = <<>> /\ current = 0) =>
          Cardinality({i \in Msgs : freecalls[i] # <<>>}) =
          Cardinality({i \in Posts : i \in Range(pushed)
                                     /\ items[i].free_cb # NULL})

\* the queue is drained after two posts with a free_cb
C2_Witness ==
    /\ q = <<>>
    /\ current = 0
    /\ Cardinality({i \in Posts : freecalls[i] # <<>>}) >= 2

\* C3: the reference count of every message target and of every memory block
\* is its count outside the queue (1) plus the number of post items that
\* reference it and have not been completed by done; so a completed
\* post-then-drain cycle leaves it as it was.
C3_RefcountsBalanced ==
    /\ \A o \in Objects :
          objref[o] = 1 + Cardinality({i \in Posts : donevals[i] = <<>>
                                                     /\ items[i].object = o})
    /\ \A b \in Memblocks :
          blkref[b] = 1 + Cardinality({i \in Posts : donevals[i] = <<>>
                                                     /\ items[i].memblock = b})

\* a post with an object and a chunk has been completed and both counts are
\* back at their value before the post
C3_Witness ==
    /\ \E i \in Posts : /\ items[i].object = "core"
                        /\ items[i].memblock = "blk"
                        /\ donevals[i] # <<>>
    /\ objref["core"] = 1
    /\ blkref["blk"] = 1

\* the positions of a producer inside pa_asyncmsgq_send
SendPcs == {"send_lock", "send_push", "send_wait"}

\* a step of pa_asyncmsgq_send by some producer
SenderStep ==
    \E p \in Producers :
        /\ pc'[p] # pc[p]
        /\ (pc[p] \in SendPcs \/ pc'[p] \in SendPcs)

\* a get that returns a send item, or a done that completes one
ConsumerSendStep ==
    /\ current' # current
    /\ \/ (current # 0 /\ kind[current] = "send")
       \/ (current' # 0 /\ kind[current'] = "send")

\* C4: no step of pa_asyncmsgq_send, and no get or done on a send item,
\* changes a reference count, calls a free_cb or releases an item record;
\* a send item has no free_cb, none is ever called for it and its record is
\* never released.
C4_SendPathFrame ==
    /\ [](\A i \in Sends : /\ items[i].free_cb = NULL
                           /\ freecalls[i] = <<>>
                           /\ released[i] = 0)
    /\ [][(SenderStep \/ ConsumerSendStep) =>
              UNCHANGED <<objref, blkref, freecalls, released, flist>>]_vars

\* a send with an object and a chunk has returned
C4_Witness ==
    \E i \in Sends :
        /\ sendret[i] # <<>>
        /\ items[i].object = "core"
        /\ items[i].memblock = "blk"

\* the calls whose push has been completed: all but the running call of a
\* producer that has not pushed yet
PushDone(i) ==
    ~(\E p \in Producers : /\ call[p] = i
                           /\ pc[p] \in {"post_lock", "post_push",
                                         "send_lock", "send_push"})

C6_NoLostWakeup ==
    (armed_at >= 0 /\ Len(pushed) > armed_at) => fd_readable

\* the consumer drained the queue, before_poll returned 0 again, and a later
\* push made the fd readable
C6_Witness ==
    /\ armed_at > 0
    /\ Len(pushed) > armed_at
    /\ fd_readable

\* C7: whenever the main loop's consumer is outside asyncmsgq_cb, the last
\* before_poll returned 0, the fd is armed, and a queued message has made the
\* fd readable.
C7_HandlerReturnsArmed ==
    cpc = "mainloop" =>
        /\ armed_at >= 0
        /\ read_waiting
        /\ (q # <<>> => fd_readable)

\* the handler has returned after a before_poll that returned nonzero: a push
\* came in after the failed get and was drained by another round
C7_Witness ==
    /\ cpc = "mainloop"
    /\ cb_again
    /\ got # <<>>

\* the positions of the consumer between a successful get and its done
InFlightPcs == {"cb_dispatch", "wf_dispatch"}

\* C8: no assertion fails; an item is in flight exactly between a successful
\* get and the done that follows it, so gets and dones alternate and at most
\* one item is in flight; a get in that window would fail its assertion, and
\* so would a done outside of it.
C8_GetDoneAlternate ==
    /\ failed = NULL
    /\ (current # 0) <=> (cpc \in InFlightPcs)
    /\ \A i \in Msgs : Len(donevals[i]) <= 1
    /\ Len(got) = Cardinality({i \in Msgs : donevals[i] # <<>>})
                  + (IF current # 0 THEN 1 ELSE 0)
    /\ current # 0 =>
          /\ current = got[Len(got)]
          /\ donevals[current] = <<>>
          /\ ENABLED (pa_asyncmsgq_get(0, cpc, cpc) /\ failed' # NULL)
          /\ ~ENABLED (pa_asyncmsgq_get(0, cpc, cpc) /\ failed' = NULL)
    /\ current = 0 =>
          /\ ENABLED (pa_asyncmsgq_done(0) /\ failed' # NULL)
          /\ ~ENABLED (pa_asyncmsgq_done(0) /\ failed' = NULL)

\* a get/done cycle has been completed and the next item is in flight
C8_Witness ==
    /\ current # 0
    /\ Len(got) >= 2

\* the codes of the items in s
CodesOf(s) == [k \in 1..Len(s) |-> items[s[k]].code]

\* C9: pa_asyncmsgq_wait_for never returns -1 here, because the blocking get
\* does not fail. It has returned 0 exactly when it has dispatched a message
\* with the requested code: the messages it dispatched are the last ones get
\* returned, in that order, each dispatched and completed once with its
\* dispatch result; the last one has the code and no earlier one has it.
C9_WaitForStopsAtCode ==
    /\ wf_ret \in {<<>>, <<0>>}
    /\ IsPrefix(wf_seen, SubSeq(got, Len(got) - Len(wf_seen)
                                      - (IF cpc = "wf_dispatch" THEN 1 ELSE 0)
                                      + 1, Len(got)))
    /\ \A k \in 1..Len(wf_seen) :
          /\ ndispatch[wf_seen[k]] = 1
          /\ donevals[wf_seen[k]] = <<DispatchOf(wf_seen[k])>>
          /\ (CodesOf(wf_seen)[k] = wf_code) <=>
                (k = Len(wf_seen) /\ wf_ret = <<0>>)
    /\ wf_ret = <<0>> => wf_seen # <<>> /\ cpc = "thread"
    /\ cpc \in {"wf_get", "wf_dispatch"} => wf_ret = <<>>

\* wait_for has returned 0 after dispatching a message with another code and
\* then one with the requested code
C9_Witness ==
    /\ wf_ret = <<0>>
    /\ Len(wf_seen) = 2

\* a step of a running call or of the consumer: anything but a new call
Progress ==
    \/ CoreNew
    \/ \E p \in Producers : PostLock(p)
    \/ \E p \in Producers : PostPush(p)
    \/ \E p \in Producers : SendLock(p)
    \/ \E p \in Producers : SendPush(p)
    \/ \E p \in Producers : SendWait(p)
    \/ Poll
    \/ CbGet
    \/ CbDispatch
    \/ CbBeforePoll
    \/ \E code \in Codes : WaitFor(code)
    \/ WfGet
    \/ WfDispatch

\* C10: a push succeeds only while fewer than `size` items are queued, so
\* with capacity 1 a second push waits until the consumer has taken the first
\* item; the items are delivered in the order their pushes succeeded; and
\* the system only comes to rest when every call has returned and every
\* item has been delivered and completed.
C10_BackPressure ==
    /\ Len(pushed) <= Len(got) + size
    /\ got \o q = pushed
    /\ ~ENABLED Progress =>
          /\ \A p \in Producers : pc[p] = "idle"
          /\ q = <<>>
          /\ current = 0
          /\ Range(got) = Calls

\* the consumer is paused, the queue is full with a post, and a second post
\* holds the mutex and waits for space
C10_Witness ==
    /\ cpc \in {"mainloop", "thread"}
    /\ Len(q) = size
    /\ \A k \in 1..Len(q) : kind[q[k]] = "post"
    /\ \E p \in Producers : /\ pc[p] = "post_push"
                            /\ mutex = p

Drained == Range(pushed) \ (Range(got) \cup Range(q))

\* C12: every item pa_asyncmsgq_free takes out of the queue is a post that
\* was never dispatched, and it is released exactly once: its free_cb, if
\* any, has run once with its userdata, its record was released once, and
\* the reference counts no longer include it. Free returns only with the
\* queue empty. Meeting a queued item with a semaphore it fails its
\* assertion: the item stays queued and its sender stays blocked.
C12_FreeDrainsPosts ==
    /\ \A i \in Drained :
          /\ kind[i] = "post"
          /\ released[i] = 1
          /\ freecalls[i] = IF items[i].free_cb # NULL
                            THEN <<Userdata(i)>> ELSE <<>>
          /\ ndispatch[i] = 0
          /\ donevals[i] = <<>>
    /\ \A o \in Objects :
          objref[o] = 1 + Cardinality({i \in Posts : released[i] = 0
                                                     /\ items[i].object = o})
    /\ \A b \in Memblocks :
          blkref[b] = 1 + Cardinality({i \in Posts : released[i] = 0
                                                     /\ items[i].memblock = b})
    /\ Drained # {} => cpc \in {"free_pop", "freed"}
    /\ cpc = "freed" => q = <<>> /\ failed = NULL
    /\ failed \in {NULL, "pa_assert(!i->semaphore)"}
    /\ failed # NULL =>
          /\ cpc = "free_pop"
          /\ q # <<>>
          /\ kind[Head(q)] = "send"
          /\ pc[owner[Head(q)]] = "send_wait"
          /\ semval[Head(q)] = 0
          /\ sendret[Head(q)] = <<>>
    /\ (failed = NULL /\ cpc = "free_pop" /\ q # <<>>
          /\ items[Head(q)].semaphore # NULL) =>
          /\ ENABLED (FreePop /\ failed' # NULL)
          /\ ~ENABLED (FreePop /\ failed' = NULL)

\* free has returned after draining a post that carried an object, a chunk
\* and a free_cb
C12_Witness ==
    /\ cpc = "freed"
    /\ \E i \in Drained : /\ items[i].free_cb # NULL
                          /\ items[i].object = "core"
                          /\ released[i] = 1

\* C13: a pa_asyncmsgq_get with wait = 0 on an empty queue does not suspend;
\* it returns -1 and changes nothing of the queue: no item is in flight
\* before or after, nothing is removed, no reference count changes, no
\* free_cb runs, no record is released, nothing is dispatched or completed;
\* and after it a get is legal.
C13_GetEmptyNoOp ==
    /\ []((cpc = "cb_get" /\ q = <<>>) =>
              ENABLED (CbGet /\ cpc' = "cb_before_poll"))
    /\ [][(cpc = "cb_get" /\ cpc' # cpc /\ q = <<>>) =>
              /\ cpc' = "cb_before_poll"
              /\ current = 0
              /\ UNCHANGED <<qvars, mvars, got, ndispatch, donevals,
                             freecalls, released, failed>>]_vars
    /\ [](cpc = "cb_before_poll" =>
              /\ current = 0
              /\ ENABLED (pa_asyncmsgq_get(0, cpc, cpc) /\ failed' = NULL))

\* after a get that failed on the empty queue and a before_poll that saw a
\* new item, the following get has returned that item
C13_Witness ==
    /\ cb_again
    /\ cpc = "cb_dispatch"
    /\ current # 0
    /\ q = <<>>

\* C14: a sender has returned only after done posted its semaphore, and it
\* returned the ret stored before the post; while its item is queued or in
\* flight and the semaphore is not posted the sender has no step; an item
\* that was pushed is written only by the consumer, while it is the item in
\* flight, the semaphore is not posted and the sender has not returned; after
\* the post the consumer only clears a->current, also when the sender has
\* returned by then.
C14_ExclusiveOwnership ==
    /\ [](\A i \in Sends :
            /\ sendret[i] # <<>> =>
                  /\ donevals[i] # <<>>
                  /\ sendret[i] = <<items[i].ret>>
            /\ (i \in Range(pushed) /\ donevals[i] = <<>>) =>
                  /\ pc[owner[i]] = "send_wait"
                  /\ call[owner[i]] = i
                  /\ ~ENABLED SendWait(owner[i]))
    /\ [][\A i \in Msgs :
            (kind[i] = "send" /\ i \in Range(pushed)
                /\ items'[i] # items[i]) =>
                    /\ current = i
                    /\ cpc = "cb_dispatch"
                    /\ cpc' # cpc
                    /\ donevals[i] = <<>>
                    /\ semval[i] = 0
                    /\ sendret[i] = <<>>]_vars
    /\ [][cpc = "cb_done_clear" /\ cpc' # cpc =>
            /\ current' = 0
            /\ UNCHANGED <<items, semval>>]_vars

\* done has posted the semaphore, the sender has woken up and returned, and
\* the consumer has not yet cleared a->current
C14_Witness ==
    /\ cpc = "cb_done_clear"
    /\ current # 0
    /\ sendret[current] # <<>>

C16_EventualDelivery ==
    /\ \A i \in Msgs :
          (i \in Range(pushed)) ~> (ndispatch[i] = 1 /\ donevals[i] # <<>>)
    /\ \A i \in Msgs :
          (i \in Range(pushed) /\ kind[i] = "send") ~> (sendret[i] # <<>>)
    /\ (cpc = "mainloop" /\ q # <<>>) ~> (cpc # "mainloop")

\* the main loop sleeps in poll again after a message that was pushed while
\* it slept has been delivered, and all messages are completed, a send among
\* them
C16_Witness ==
    /\ cpc = "mainloop"
    /\ q = <<>>
    /\ Range(pushed) = Msgs
    /\ \A i \in Msgs : donevals[i] # <<>>
    /\ \E i \in Sends : sendret[i] # <<>>

\* C17: pa_asyncmsgq_before_poll can return 0 exactly when the queue is
\* empty and nonzero exactly when an item is queued; a caller that got 0 has
\* the fd armed, one that got nonzero goes back to draining with the arming
\* as it was; the queue pa_core_new has just created is empty with nothing
\* in flight, so its before_poll returns 0 and the assertion holds.
C17_BeforePollResult ==
    /\ [](/\ ENABLED pa_asyncmsgq_before_poll(0) <=> (q = <<>>)
          /\ ENABLED pa_asyncmsgq_before_poll(-1) <=> (q # <<>>))
    /\ [](cpc = "core_new" =>
              /\ q = <<>>
              /\ current = 0
              /\ ~read_waiting
              /\ failed = NULL
              /\ ENABLED (CoreNew /\ failed' = NULL)
              /\ ~ENABLED (CoreNew /\ failed' # NULL))
    /\ [][(cpc \in {"core_new", "cb_before_poll"} /\ cpc' # cpc) =>
              IF q = <<>>
              THEN /\ cpc' = "mainloop"
                   /\ read_waiting'
                   /\ armed_at' = Len(pushed)
              ELSE /\ cpc' = "cb_get"
                   /\ UNCHANGED <<read_waiting, armed_at>>]_vars

\* after pa_core_new's before_poll returned 0, a before_poll in the handler
\* has found an item queued and returned nonzero without arming
C17_Witness ==
    /\ cb_again
    /\ cpc = "cb_get"
    /\ q # <<>>
    /\ ~read_waiting

\* the positions at which a producer waits for the mutex, and those at which
\* it holds it
LockPcs == {"post_lock", "send_lock"}
PushPcs == {"post_push", "send_push"}

\* C18: the mutex is held by at most one producer, and exactly by a producer
\* that is at its push; a sender waiting for its reply does not hold it; so
\* while senders wait for replies a producer that wants the mutex gets it
\* unless another producer is at its push.
C18_MutexOnlyAroundPush ==
    /\ mutex \in Producers \cup {NULL}
    /\ \A p \in Producers : (mutex = p) <=> (pc[p] \in PushPcs)
    /\ \A p \in Producers : pc[p] = "send_wait" => mutex # p
    /\ \A p, r \in Producers :
          (/\ pc[p] = "send_wait"
           /\ pc[r] \in LockPcs
           /\ \A t \in Producers : pc[t] \notin PushPcs) =>
              ENABLED (PostLock(r) \/ SendLock(r))

\* two senders wait for their replies at the same time: the second one took
\* the mutex and pushed while the first was waiting
C18_Witness ==
    /\ \A p \in Producers : /\ pc[p] = "send_wait"
                            /\ semval[call[p]] = 0
                            /\ call[p] \in Range(pushed)
    /\ mutex = NULL

\* the positions in the sequence s of the messages with the code c
Matches(s, c) == {k \in 1..Len(s) : items[s[k]].code = c}

\* C19: when pa_asyncmsgq_wait_for(c) has returned 0, no item is in flight,
\* and the messages pushed after the first message with code c that it
\* dispatched are exactly the queued ones, in the order of their pushes;
\* none of them was returned by get, dispatched or completed.
C19_WaitForConsumesNoMore ==
    wf_ret = <<0>> =>
        /\ cpc = "thread"
        /\ current = 0
        /\ Matches(wf_seen, wf_code) # {}
        /\ LET k == CHOOSE k \in Matches(wf_seen, wf_code) :
                        \A j \in Matches(wf_seen, wf_code) : k <= j
               pos == CHOOSE n \in 1..Len(pushed) : pushed[n] = wf_seen[k]
           IN /\ q = SubSeq(pushed, pos + 1, Len(pushed))
              /\ \A n \in (pos + 1)..Len(pushed) :
                    /\ pushed[n] \notin Range(got)
                    /\ ndispatch[pushed[n]] = 0
                    /\ donevals[pushed[n]] = <<>>

\* wait_for has returned 0 and a message that also has the code is queued
C19_Witness ==
    /\ wf_ret = <<0>>
    /\ q # <<>>
    /\ items[Head(q)].code = wf_code

\* C20: when pa_asyncmsgq_free has returned, every post that was enqueued
\* has had its free_cb run once (if it has one) and its record released
\* once, and no reference taken by a post is left: every count is back at
\* its value outside the queue. This is to hold whatever the consumer was
\* doing when the queue was freed, also with an item in flight.
C20_NoLeakAtFree ==
    cpc = "freed" =>
        /\ \A i \in Posts :
              i \in Range(pushed) =>
                  /\ released[i] = 1
                  /\ freecalls[i] = IF items[i].free_cb # NULL
                                    THEN <<Userdata(i)>> ELSE <<>>
        /\ \A o \in Objects : objref[o] = 1
        /\ \A b \in Memblocks : blkref[b] = 1

====
